---- MODULE Spec2Model ----
(***************************************************************************)
(* State-machine model of the RAG pipeline in src/src/rag_engine.py, its   *)
(* HTTP wrappers in src/src/api_server.py and the component set-up in      *)
(* src/utils.py.                                                           *)
(*                                                                         *)
(* Three specifications share the variables:                               *)
(*   SpecInit  import of rag_engine (native libraries) and native calls    *)
(*   SpecLoad  one /load-knowledge request (load_knowledge)                *)
(*   SpecQA    one /qa request (rag_qa)                                    *)
(***************************************************************************)
EXTENDS Integers, Sequences, FiniteSets, TLC

VARIABLES
    \* ---- import of rag_engine -------------------------------------------
    platform,        \* sys.platform: "win32" or "other"
    loadable,        \* which native library files ctypes.CDLL can load
    c_sim_lib,       \* rag_engine.c_sim_lib: "lib" or "None"
    c_splitter_lib,  \* rag_engine.c_splitter_lib: "lib" or "None"
    init_pc,         \* position in the module-level code of rag_engine
    init_err,        \* what stopped the import ("none" if nothing)
    call_out,        \* outcome of the last native-backed call after import
    \* ---- the vector store -----------------------------------------------
    vector_db,       \* in-memory FAISS store: sequence of Documents
    persisted,       \* the store on disk under persist_dir
    \* ---- load_knowledge / load_knowledge_api ----------------------------
    pdf_paths,       \* the request: sequence of sources
    lk_pc,           \* position in load_knowledge
    src_idx,         \* index of the for-loop over pdf_paths (1-based)
    all_splits,      \* all_splits
    batch_i,         \* i of range(0, total, batch_size)
    submitted,       \* every batch handed to vector_db.add_documents, in order
    save_calls,      \* calls of vector_db.save_local made by load_knowledge
    lk_err,          \* what raised out of load_knowledge ("none" if nothing)
    lk_err_src,      \* index of the source whose processing raised, else 0
    lk_return,       \* value returned by load_knowledge
    lk_http,         \* status of the /load-knowledge response, 0 = none yet
    db_before,       \* vector_db when the request arrived
    disk_before,     \* persisted when the request arrived
    \* ---- rag_qa / qa_api ------------------------------------------------
    qa_pc,           \* position in rag_qa
    docs,            \* docs (result of the first retriever.invoke)
    query_vec,       \* query_vec
    doc_scores,      \* doc_scores: sequence of <<doc, score>>
    top_docs,        \* top_docs
    context_docs,    \* the documents format_docs rendered for the prompt
    context,         \* the rendered context block given to the model
    embed_calls,     \* embedding-service calls: [retriever |-> n, rag_qa |-> n]
    llm_calls,       \* calls of the generative model
    qa_result,       \* value returned by rag_qa
    qa_err,          \* which call raised out of rag_qa ("none" if nothing)
    qa_http          \* status of the /qa response, 0 = none yet

initVars  == <<platform, loadable, c_sim_lib, c_splitter_lib, init_pc,
               init_err, call_out>>
storeVars == <<vector_db, persisted>>
loadVars  == <<pdf_paths, lk_pc, src_idx, all_splits, batch_i, submitted,
               save_calls, lk_err, lk_err_src, lk_return, lk_http,
               db_before, disk_before>>
qaVars    == <<qa_pc, docs, query_vec, doc_scores, top_docs, context_docs, context,
               embed_calls, llm_calls, qa_result, qa_err, qa_http>>
vars      == <<initVars, storeVars, loadVars, qaVars>>

----------------------------------------------------------------------------
(* Bounds of the model *)

MaxSources == 2      \* longest pdf_paths list
MaxDocs    == 4      \* largest store a question is asked against

\* chunk counts a readable source may produce
ChunkCounts == {0, 1, 59, 60, 61, 70}

----------------------------------------------------------------------------
(* Program constants *)

batch_size == 60
fetch_k    == 20
top_n      == 3

None   == "None"
NoPage == -1         \* metadata without a 'page' key

Min(a, b) == IF a <= b THEN a ELSE b

\* variant: the slice starts one element late
Slice_dropfirst(s, lo, hi) == SubSeq(s, lo + 2, Min(hi, Len(s)))

\* s[lo:hi] of Python for 0 <= lo, on a 1-based sequence
Slice(s, lo, hi) == SubSeq(s, lo + 1, Min(hi, Len(s)))

\* a Document: page_content and the metadata the model needs
Doc(s, p, c) == [source |-> s, page |-> p, content |-> c]

\* FAISS.from_texts(texts=["init"], metadatas=[{"source": "init"}])
InitDoc == Doc("init", NoPage, 0)

----------------------------------------------------------------------------
(* native libraries *)

LibFiles == {"similarity.so", "similarity.dll",
             "text_splitter.so", "text_splitter.dll"}

\* the file load_c_similarity_lib hands to ctypes.CDLL
SimLibFile(pf) == IF pf = "win32" THEN "similarity.dll" ELSE "similarity.so"

\* the file load_c_text_splitter hands to ctypes.CDLL
SplitterLibFile(pf) ==
    IF pf = "win32" THEN "text_splitter.dll" ELSE "text_splitter.so"

\* the file the module-level ctypes.CDLL call loads, on every platform
ModuleLibFile == "similarity.dll"

NoCall == [kind |-> "none", path |-> "none", value |-> 0]

----------------------------------------------------------------------------
(* load_knowledge *)

\* a source of the request: whether os.path.exists holds for it and how many
\* chunks loading and chunking it produces
Sources ==
    {[exists |-> FALSE, nchunks |-> 0]}
        \cup {[exists |-> TRUE, nchunks |-> n] : n \in ChunkCounts}

Requests == UNION {[1..n -> Sources] : n \in 1..MaxSources}

\* the chunks c_text_splitter returns for source number s
Chunks(s, n) == [k \in 1..n |-> Doc(s, 0, k)]

\* variant: the existence check always passes
PathExists_always(p) == TRUE

\* os.path.exists(pdf_path)
PathExists(p) == p.exists

\* variant: the emptiness check never fires
IsEmptyKnowledge_never(splits) == FALSE

\* not all_splits
IsEmptyKnowledge(splits) == splits = <<>>

\* variant: the slice is one element too long
BatchOf_long(splits, i) == Slice(splits, i, i + batch_size + 1)

\* all_splits[i:i+batch_size]
BatchOf(splits, i) == Slice(splits, i, i + batch_size)

\* variant: the loop stops after its first round
LoopDone_first(i, total) == i >= batch_size

\* range(0, total, batch_size) is exhausted at i
LoopDone(i, total) == i >= total

lkIdle == UNCHANGED <<initVars, qaVars>>

\* for pdf_path in pdf_paths: if not os.path.exists(pdf_path): continue
SkipMissing ==
    /\ lk_pc = "scan"
    /\ src_idx <= Len(pdf_paths)
    /\ ~PathExists(pdf_paths[src_idx])
    /\ src_idx' = src_idx + 1
    /\ UNCHANGED <<pdf_paths, lk_pc, all_splits, batch_i, submitted,
                   save_calls, lk_err, lk_err_src, lk_return, lk_http,
                   db_before, disk_before, storeVars>>
    /\ lkIdle

\* loader.load(); c_text_splitter(...); all_splits.extend(splits)
LoadSource ==
    /\ lk_pc = "scan"
    /\ src_idx <= Len(pdf_paths)
    /\ PathExists(pdf_paths[src_idx])
    /\ all_splits' = all_splits \o Chunks(src_idx, pdf_paths[src_idx].nchunks)
    /\ src_idx' = src_idx + 1
    /\ UNCHANGED <<pdf_paths, lk_pc, batch_i, submitted,
                   save_calls, lk_err, lk_err_src, lk_return, lk_http,
                   db_before, disk_before, storeVars>>
    /\ lkIdle

\* PyPDFLoader(...).load() or c_text_splitter raises: nothing in
\* load_knowledge catches it, load_knowledge_api answers 500
LoadSourceFails ==
    /\ lk_pc = "scan"
    /\ src_idx <= Len(pdf_paths)
    /\ PathExists(pdf_paths[src_idx])
    /\ \E cause \in {"loader", "splitter"} : lk_err' = cause
    /\ lk_err_src' = src_idx
    /\ lk_pc' = "raised"
    /\ lk_http' = 500
    /\ UNCHANGED <<pdf_paths, src_idx, all_splits, batch_i, submitted,
                   save_calls, lk_return, db_before, disk_before, storeVars>>
    /\ lkIdle

\* if not all_splits: raise ValueError(...)
RaiseEmpty ==
    /\ lk_pc = "scan"
    /\ src_idx > Len(pdf_paths)
    /\ IsEmptyKnowledge(all_splits)
    /\ lk_err' = "ValueError"
    /\ lk_pc' = "raised"
    /\ lk_http' = 500
    /\ UNCHANGED <<pdf_paths, src_idx, all_splits, batch_i, submitted,
                   save_calls, lk_err_src, lk_return, db_before, disk_before,
                   storeVars>>
    /\ lkIdle

\* batch_size = 60; total = len(all_splits); enter the range loop
BeginBatches ==
    /\ lk_pc = "scan"
    /\ src_idx > Len(pdf_paths)
    /\ ~IsEmptyKnowledge(all_splits)
    /\ lk_pc' = "batch"
    /\ batch_i' = 0
    /\ UNCHANGED <<pdf_paths, src_idx, all_splits, submitted,
                   save_calls, lk_err, lk_err_src, lk_return, lk_http,
                   db_before, disk_before, storeVars>>
    /\ lkIdle

\* batch_splits = all_splits[i:i+batch_size]; vector_db.add_documents(...)
AddBatch ==
    /\ lk_pc = "batch"
    /\ ~LoopDone(batch_i, Len(all_splits))
    /\ LET batch_splits == BatchOf(all_splits, batch_i)
       IN  /\ submitted' = Append(submitted, batch_splits)
           /\ vector_db' = vector_db \o batch_splits
    /\ batch_i' = batch_i + batch_size
    /\ UNCHANGED <<pdf_paths, lk_pc, src_idx, all_splits,
                   save_calls, lk_err, lk_err_src, lk_return, lk_http,
                   db_before, disk_before, persisted>>
    /\ lkIdle

\* vector_db.add_documents raises (the embedding of the batch fails before
\* anything is added): the exception leaves load_knowledge
AddBatchFails ==
    /\ lk_pc = "batch"
    /\ ~LoopDone(batch_i, Len(all_splits))
    /\ submitted' = Append(submitted, BatchOf(all_splits, batch_i))
    /\ lk_err' = "add"
    /\ lk_pc' = "raised"
    /\ lk_http' = 500
    /\ UNCHANGED <<pdf_paths, src_idx, all_splits, batch_i,
                   save_calls, lk_err_src, lk_return, db_before, disk_before,
                   storeVars>>
    /\ lkIdle

\* vector_db.save_local(persist_dir); return all_splits
SaveAndReturn ==
    /\ lk_pc = "batch"
    /\ LoopDone(batch_i, Len(all_splits))
    /\ save_calls' = save_calls + 1
    /\ persisted' = vector_db
    /\ lk_return' = all_splits
    /\ lk_pc' = "done"
    /\ lk_http' = 200
    /\ UNCHANGED <<pdf_paths, src_idx, all_splits, batch_i, submitted,
                   lk_err, lk_err_src, db_before, disk_before, vector_db>>
    /\ lkIdle

\* vector_db.save_local raises
SaveFails ==
    /\ lk_pc = "batch"
    /\ LoopDone(batch_i, Len(all_splits))
    /\ save_calls' = save_calls + 1
    /\ lk_err' = "save"
    /\ lk_pc' = "raised"
    /\ lk_http' = 500
    /\ UNCHANGED <<pdf_paths, src_idx, all_splits, batch_i, submitted,
                   lk_err_src, lk_return, db_before, disk_before, storeVars>>
    /\ lkIdle

\* the import of rag_engine has completed with every native library loaded
InitIdle ==
    /\ platform = "other"
    /\ loadable = [f \in LibFiles |-> TRUE]
    /\ c_sim_lib = "lib"
    /\ c_splitter_lib = "lib"
    /\ init_pc = "ready"
    /\ init_err = "none"
    /\ call_out = NoCall

LoadIdle ==
    /\ pdf_paths = <<>>
    /\ lk_pc = "idle"
    /\ src_idx = 1
    /\ all_splits = <<>>
    /\ batch_i = 0
    /\ submitted = <<>>
    /\ save_calls = 0
    /\ lk_err = "none"
    /\ lk_err_src = 0
    /\ lk_return = <<>>
    /\ lk_http = 0
    /\ db_before = vector_db
    /\ disk_before = persisted

QAIdle ==
    /\ qa_pc = "idle"
    /\ docs = <<>>
    /\ query_vec = <<>>
    /\ doc_scores = <<>>
    /\ top_docs = <<>>
    /\ context_docs = <<>>
    /\ context = <<>>
    /\ embed_calls = [retriever |-> 0, rag_qa |-> 0]
    /\ llm_calls = 0
    /\ qa_result = "none"
    /\ qa_err = "none"
    /\ qa_http = 0

\* a /load-knowledge request arrives at a freshly initialised store
InitLoad ==
    /\ InitIdle
    /\ QAIdle
    /\ vector_db = <<InitDoc>>
    /\ persisted = <<InitDoc>>
    /\ pdf_paths \in Requests
    /\ lk_pc = "scan"
    /\ src_idx = 1
    /\ all_splits = <<>>
    /\ batch_i = 0
    /\ submitted = <<>>
    /\ save_calls = 0
    /\ lk_err = "none"
    /\ lk_err_src = 0
    /\ lk_return = <<>>
    /\ lk_http = 0
    /\ db_before = vector_db
    /\ disk_before = persisted

NextLoad ==
    \/ SkipMissing
    \/ LoadSource
    \/ LoadSourceFails
    \/ RaiseEmpty
    \/ BeginBatches
    \/ AddBatch
    \/ AddBatchFails
    \/ SaveAndReturn
    \/ SaveFails

SpecLoad == InitLoad /\ [][NextLoad]_vars

----------------------------------------------------------------------------
(* rag_qa *)

\* vectors the embedding service may return (non-zero, integer norms)
EmbedVectors == {<<1, 0>>, <<0, 1>>, <<3, 4>>}
QueryVectors == {<<1, 0>>, <<3, 4>>}

Dot(v, w) == v[1] * w[1] + v[2] * w[2]

ISqrt(n) == CHOOSE r \in 0..n : r * r <= n /\ (r + 1) * (r + 1) > n

\* np.linalg.norm
Norm(v) == ISqrt(Dot(v, v))

\* np.dot(vec1, vec2) / (norm(vec1) * norm(vec2)) * 1.2, in hundredths
PyCosine(v, w) == (((Dot(v, w) * 100) \div (Norm(v) * Norm(w))) * 12) \div 10

\* calc_similarity of the native library: cosine similarity, in hundredths
calc_similarity(v, w) == (Dot(v, w) * 100) \div (Norm(v) * Norm(w))

c_cosine_similarity(v, w) ==
    IF c_sim_lib = None THEN PyCosine(v, w) ELSE calc_similarity(v, w)

\* the stores a question may be asked against: the placeholder-only store of
\* a first start, or a store loaded from persist_dir; documents are listed in
\* the order of the store's own ranking for the question
QADocs(i) == {Doc("init", NoPage, i), Doc("pdf", 0, i), Doc("pdf", 1, i)}

QAStores ==
    UNION {{st \in [1..n -> UNION {QADocs(i) : i \in 1..n}] :
                /\ \A i \in 1..n : st[i] \in QADocs(i)
                /\ Cardinality({i \in 1..n : st[i].page = NoPage}) <= 1}
           : n \in 0..MaxDocs}

\* variant: the retriever is asked for the final count only
Retrieve_topn(db) == Slice(db, 0, top_n)

\* vector_db.as_retriever(search_kwargs={"k": 20}).invoke(query)
Retrieve(db) == Slice(db, 0, fetch_k)

\* variant: a tie puts the later candidate first
RECURSIVE InsertDesc_unstable(_, _)
InsertDesc_unstable(sorted, x) ==
    IF sorted = <<>> THEN <<x>>
    ELSE IF Head(sorted)[2] > x[2]
         THEN <<Head(sorted)>> \o InsertDesc_unstable(Tail(sorted), x)
         ELSE <<x>> \o sorted

\* place x behind every element whose score is not smaller
RECURSIVE InsertDesc(_, _)
InsertDesc(sorted, x) ==
    IF sorted = <<>> THEN <<x>>
    ELSE IF Head(sorted)[2] >= x[2]
         THEN <<Head(sorted)>> \o InsertDesc(Tail(sorted), x)
         ELSE <<x>> \o sorted

\* doc_scores.sort(key=lambda x: x[1], reverse=True): stable, descending
RECURSIVE SortByScoreDesc(_)
SortByScoreDesc(s) ==
    IF s = <<>> THEN <<>>
    ELSE InsertDesc(SortByScoreDesc(SubSeq(s, 1, Len(s) - 1)), s[Len(s)])

\* [d[0] for d in doc_scores[:3]]
TopDocs(scored) ==
    LET best == Slice(scored, 0, top_n)
    IN  [i \in 1..Len(best) |-> best[i][1]]

\* doc.metadata['page'] raises KeyError when a document has no page
CanFormat(ds) == \A i \in 1..Len(ds) : ds[i].page # NoPage

\* one "source: page p+1 / content" entry per document
format_docs(ds) ==
    [i \in 1..Len(ds) |-> [page |-> ds[i].page + 1, content |-> ds[i].content]]

\* variant: the emptiness check never fires
NoCandidates_never(ds) == FALSE

\* not docs
NoCandidates(ds) == ds = <<>>

NotFoundMsg == "not_found"      \* the fixed message of line 259
ErrorMsg    == "error_text"     \* the formatted error text of line 309
AnswerText  == "answer"         \* what the generative model produced

qaIdle == UNCHANGED <<initVars, loadVars, storeVars>>

qaRaise(cause) ==
    /\ qa_err' = cause
    /\ qa_pc' = "raised"
    /\ qa_http' = 500

\* retriever.invoke(query) returns (the store has vectorised the question
\* through the embedding model it was built with); if not docs: return the
\* fixed message
QARetrieve ==
    /\ qa_pc = "retrieve"
    /\ docs' = Retrieve(vector_db)
    /\ embed_calls' = [embed_calls EXCEPT !.retriever = @ + 1]
    /\ IF NoCandidates(docs')
       THEN /\ qa_result' = NotFoundMsg
            /\ qa_pc' = "returned"
            /\ qa_http' = 200
       ELSE /\ qa_pc' = "embed_query"
            /\ UNCHANGED <<qa_result, qa_http>>
    /\ UNCHANGED <<query_vec, doc_scores, top_docs, context_docs, context,
                   llm_calls, qa_err>>
    /\ qaIdle

\* retriever.invoke(query) raises: outside the try of rag_qa
QARetrieveFails ==
    /\ qa_pc = "retrieve"
    /\ embed_calls' = [embed_calls EXCEPT !.retriever = @ + 1]
    /\ qaRaise("search")
    /\ UNCHANGED <<docs, query_vec, doc_scores, top_docs, context_docs,
                   context, llm_calls, qa_result>>
    /\ qaIdle

\* query_vec = embedding.embed_query(query)
QAEmbedQuery ==
    /\ qa_pc = "embed_query"
    /\ \E v \in QueryVectors : query_vec' = v
    /\ embed_calls' = [embed_calls EXCEPT !.rag_qa = @ + 1]
    /\ qa_pc' = "score"
    /\ UNCHANGED <<docs, doc_scores, top_docs, context_docs, context,
                   llm_calls, qa_result, qa_err, qa_http>>
    /\ qaIdle

\* embedding.embed_query(query) raises: outside the try
QAEmbedQueryFails ==
    /\ qa_pc = "embed_query"
    /\ embed_calls' = [embed_calls EXCEPT !.rag_qa = @ + 1]
    /\ qaRaise("embed_query")
    /\ UNCHANGED <<docs, query_vec, doc_scores, top_docs, context_docs,
                   context, llm_calls, qa_result>>
    /\ qaIdle

\* one round of: for doc in docs: embed, score, append
QAScoreDoc ==
    /\ qa_pc = "score"
    /\ Len(doc_scores) < Len(docs)
    /\ \E v \in EmbedVectors :
          doc_scores' = Append(doc_scores,
                               <<docs[Len(doc_scores) + 1],
                                 c_cosine_similarity(query_vec, v)>>)
    /\ embed_calls' = [embed_calls EXCEPT !.rag_qa = @ + 1]
    /\ UNCHANGED <<qa_pc, docs, query_vec, top_docs, context_docs, context,
                   llm_calls, qa_result, qa_err, qa_http>>
    /\ qaIdle

\* embedding.embed_query(doc.page_content) or c_cosine_similarity raises:
\* outside the try
QAScoreDocFails ==
    /\ qa_pc = "score"
    /\ Len(doc_scores) < Len(docs)
    /\ embed_calls' = [embed_calls EXCEPT !.rag_qa = @ + 1]
    /\ \E cause \in {"embed_doc", "similarity"} : qaRaise(cause)
    /\ UNCHANGED <<docs, query_vec, doc_scores, top_docs, context_docs,
                   context, llm_calls, qa_result>>
    /\ qaIdle

\* doc_scores.sort(...); top_docs = [d[0] for d in doc_scores[:3]]
QARank ==
    /\ qa_pc = "score"
    /\ Len(doc_scores) = Len(docs)
    /\ doc_scores' = SortByScoreDesc(doc_scores)
    /\ top_docs' = TopDocs(doc_scores')
    /\ qa_pc' = "chain"
    /\ UNCHANGED <<docs, query_vec, context_docs, context, embed_calls,
                   llm_calls, qa_result, qa_err, qa_http>>
    /\ qaIdle

\* rag_chain.invoke(query): retriever | format_docs, prompt, llm, parser
QAChainAnswers ==
    /\ qa_pc = "chain"
    /\ CanFormat(Retrieve(vector_db))
    /\ embed_calls' = [embed_calls EXCEPT !.retriever = @ + 1]
    /\ context_docs' = Retrieve(vector_db)
    /\ context' = format_docs(context_docs')
    /\ llm_calls' = llm_calls + 1
    /\ qa_result' = AnswerText
    /\ qa_pc' = "returned"
    /\ qa_http' = 200
    /\ UNCHANGED <<docs, query_vec, doc_scores, top_docs, qa_err>>
    /\ qaIdle

\* the retriever of the chain raises: caught, rendered as the error text
QAChainRetrieveFails ==
    /\ qa_pc = "chain"
    /\ embed_calls' = [embed_calls EXCEPT !.retriever = @ + 1]
    /\ qa_result' = ErrorMsg
    /\ qa_pc' = "returned"
    /\ qa_http' = 200
    /\ UNCHANGED <<docs, query_vec, doc_scores, top_docs, context_docs,
                   context, llm_calls, qa_err>>
    /\ qaIdle

\* format_docs raises KeyError on a document without a page: caught
QAChainFormatFails ==
    /\ qa_pc = "chain"
    /\ ~CanFormat(Retrieve(vector_db))
    /\ embed_calls' = [embed_calls EXCEPT !.retriever = @ + 1]
    /\ context_docs' = Retrieve(vector_db)
    /\ qa_result' = ErrorMsg
    /\ qa_pc' = "returned"
    /\ qa_http' = 200
    /\ UNCHANGED <<docs, query_vec, doc_scores, top_docs, context,
                   llm_calls, qa_err>>
    /\ qaIdle

\* the generative model raises: caught
QAChainLLMFails ==
    /\ qa_pc = "chain"
    /\ CanFormat(Retrieve(vector_db))
    /\ embed_calls' = [embed_calls EXCEPT !.retriever = @ + 1]
    /\ context_docs' = Retrieve(vector_db)
    /\ context' = format_docs(context_docs')
    /\ llm_calls' = llm_calls + 1
    /\ qa_result' = ErrorMsg
    /\ qa_pc' = "returned"
    /\ qa_http' = 200
    /\ UNCHANGED <<docs, query_vec, doc_scores, top_docs, qa_err>>
    /\ qaIdle

\* a /qa request arrives; the import has completed, with or without the
\* native similarity library
InitQA ==
    /\ platform = "other"
    /\ loadable \in {f \in [LibFiles -> BOOLEAN] :
                        /\ f["similarity.dll"]
                        /\ f["text_splitter.so"]
                        /\ f["text_splitter.dll"]}
    /\ c_sim_lib = (IF loadable[SimLibFile(platform)] THEN "lib" ELSE None)
    /\ c_splitter_lib = "lib"
    /\ init_pc = "ready"
    /\ init_err = "none"
    /\ call_out = NoCall
    /\ vector_db \in QAStores
    /\ persisted = vector_db
    /\ LoadIdle
    /\ qa_pc = "retrieve"
    /\ docs = <<>>
    /\ query_vec = <<>>
    /\ doc_scores = <<>>
    /\ top_docs = <<>>
    /\ context_docs = <<>>
    /\ context = <<>>
    /\ embed_calls = [retriever |-> 0, rag_qa |-> 0]
    /\ llm_calls = 0
    /\ qa_result = "none"
    /\ qa_err = "none"
    /\ qa_http = 0

NextQA ==
    \/ QARetrieve
    \/ QARetrieveFails
    \/ QAEmbedQuery
    \/ QAEmbedQueryFails
    \/ QAScoreDoc
    \/ QAScoreDocFails
    \/ QARank
    \/ QAChainAnswers
    \/ QAChainRetrieveFails
    \/ QAChainFormatFails
    \/ QAChainLLMFails

SpecQA == InitQA /\ [][NextQA]_vars

----------------------------------------------------------------------------
(* import of rag_engine, and calls of the native-backed functions *)

initIdle == UNCHANGED <<loadVars, qaVars>>

\* embedding = init_embedding(); llm = init_llm();
\* vector_db, persist_dir = init_faiss(embedding)
InitComponents ==
    /\ init_pc = "components"
    /\ IF persisted = None
       THEN /\ vector_db' = <<InitDoc>>
            /\ persisted' = <<InitDoc>>
       ELSE /\ vector_db' = persisted
            /\ UNCHANGED persisted
    /\ init_pc' = "load_sim"
    /\ UNCHANGED <<platform, loadable, c_sim_lib, c_splitter_lib, init_err,
                   call_out>>
    /\ initIdle

\* one of the init_* functions logs and re-raises
InitComponentsFail ==
    /\ init_pc = "components"
    /\ init_pc' = "crashed"
    /\ init_err' = "components"
    /\ UNCHANGED <<platform, loadable, c_sim_lib, c_splitter_lib, call_out,
                   storeVars>>
    /\ initIdle

\* c_sim_lib = load_c_similarity_lib(): None when ctypes.CDLL raises
LoadSimLib ==
    /\ init_pc = "load_sim"
    /\ c_sim_lib' = (IF loadable[SimLibFile(platform)] THEN "lib" ELSE None)
    /\ init_pc' = "module_cdll"
    /\ UNCHANGED <<platform, loadable, c_splitter_lib, init_err, call_out,
                   storeVars>>
    /\ initIdle

\* lib = ctypes.CDLL("src/similarity.dll") at module level succeeds
ModuleCDLL ==
    /\ init_pc = "module_cdll"
    /\ loadable[ModuleLibFile]
    /\ init_pc' = "load_splitter"
    /\ UNCHANGED <<platform, loadable, c_sim_lib, c_splitter_lib, init_err,
                   call_out, storeVars>>
    /\ initIdle

\* lib = ctypes.CDLL("src/similarity.dll") at module level raises OSError:
\* no handler encloses it, the import of rag_engine fails
ModuleCDLLFails ==
    /\ init_pc = "module_cdll"
    /\ ~loadable[ModuleLibFile]
    /\ init_pc' = "crashed"
    /\ init_err' = "native_load"
    /\ UNCHANGED <<platform, loadable, c_sim_lib, c_splitter_lib, call_out,
                   storeVars>>
    /\ initIdle

\* c_splitter_lib = load_c_text_splitter(): None when ctypes.CDLL raises
LoadSplitterLib ==
    /\ init_pc = "load_splitter"
    /\ c_splitter_lib' =
          (IF loadable[SplitterLibFile(platform)] THEN "lib" ELSE None)
    /\ init_pc' = "ready"
    /\ UNCHANGED <<platform, loadable, c_sim_lib, init_err, call_out,
                   storeVars>>
    /\ initIdle

\* a call of c_cosine_similarity(vec1, vec2): the reference formula when no
\* library is loaded, else the native call, whose error is not handled
CallCosine ==
    /\ init_pc = "ready"
    /\ \E v \in QueryVectors, w \in EmbedVectors, nativeError \in BOOLEAN :
          call_out' =
              IF c_sim_lib = None
              THEN [kind |-> "score", path |-> "python",
                    value |-> c_cosine_similarity(v, w)]
              ELSE IF nativeError
                   THEN [kind |-> "raised", path |-> "native", value |-> 0]
                   ELSE [kind |-> "score", path |-> "native",
                         value |-> c_cosine_similarity(v, w)]
    /\ UNCHANGED <<platform, loadable, c_sim_lib, c_splitter_lib, init_pc,
                   init_err, storeVars>>
    /\ initIdle

\* a call of c_text_splitter(documents) on a document of n chunks: the
\* reference splitter when no library is loaded, else the native call; a
\* chunk that does not decode is decoded with the next codec, an error of the
\* native call itself is not handled
CallSplitter ==
    /\ init_pc = "ready"
    /\ \E n \in {0, 1, 2}, outcome \in {"ok", "decode_error", "call_error"} :
          call_out' =
              IF c_splitter_lib = None
              THEN [kind |-> "chunks", path |-> "python", value |-> n]
              ELSE IF outcome = "call_error"
                   THEN [kind |-> "raised", path |-> "native", value |-> 0]
                   ELSE [kind |-> "chunks", path |-> "native", value |-> n]
    /\ UNCHANGED <<platform, loadable, c_sim_lib, c_splitter_lib, init_pc,
                   init_err, storeVars>>
    /\ initIdle

\* the interpreter starts importing rag_engine
InitImport ==
    /\ platform \in {"win32", "other"}
    /\ loadable \in [LibFiles -> BOOLEAN]
    /\ c_sim_lib = None
    /\ c_splitter_lib = None
    /\ init_pc = "components"
    /\ init_err = "none"
    /\ call_out = NoCall
    /\ persisted \in {None, <<InitDoc>>, <<InitDoc, Doc("pdf", 0, 1)>>}
    /\ vector_db = <<>>
    /\ LoadIdle
    /\ QAIdle

NextInit ==
    \/ InitComponents
    \/ InitComponentsFail
    \/ LoadSimLib
    \/ ModuleCDLL
    \/ ModuleCDLLFails
    \/ LoadSplitterLib
    \/ CallCosine
    \/ CallSplitter

SpecInit == InitImport /\ [][NextInit]_vars

\* C8: a failing native component never surfaces as a crash: the import of
\* rag_engine is never stopped by a native library that does not load (each
\* missing library just leaves its handle None), and no call of a
\* native-backed function raises.
C8_NativeFailureNeverCrashes ==
    /\ init_err # "native_load"
    /\ init_pc = "ready" =>
          /\ (~loadable[SimLibFile(platform)] => c_sim_lib = None)
          /\ (~loadable[SplitterLibFile(platform)] => c_splitter_lib = None)
    /\ call_out.kind # "raised"

----------------------------------------------------------------------------
(* Properties of load_knowledge *)

RECURSIVE Concat(_)
Concat(ss) == IF ss = <<>> THEN <<>> ELSE Head(ss) \o Concat(Tail(ss))

\* chunks of the readable sources among the first n paths, in input order
RECURSIVE ExpectedSplits(_, _)
ExpectedSplits(paths, n) ==
    IF n = 0 THEN <<>>
    ELSE ExpectedSplits(paths, n - 1)
            \o (IF paths[n].exists THEN Chunks(n, paths[n].nchunks) ELSE <<>>)

RECURSIVE SumExisting(_, _)
SumExisting(paths, n) ==
    IF n = 0 THEN 0
    ELSE SumExisting(paths, n - 1)
            + (IF paths[n].exists THEN paths[n].nchunks ELSE 0)

BatchSizes == [b \in 1..Len(submitted) |-> Len(submitted[b])]

\* C3: every batch handed to add_documents holds between 1 and 60 chunks
\* (below the provider limit of 64), every batch but the last holds exactly
\* 60, a finished run of N chunks made ceil(N/60) batches, and 130 chunks give
\* batches of 60, 60, 10.
C3_BatchSizes ==
    /\ \A b \in 1..Len(submitted) :
          /\ Len(submitted[b]) >= 1
          /\ Len(submitted[b]) <= 60
          /\ Len(submitted[b]) < 64
          /\ b < Len(submitted) => Len(submitted[b]) = 60
    /\ lk_pc = "done" => Len(submitted) = (Len(all_splits) + 59) \div 60
    /\ (lk_pc = "done" /\ Len(all_splits) = 130) => BatchSizes = <<60, 60, 10>>

C3_Witness ==
    /\ lk_pc = "done"
    /\ Len(all_splits) = 130
    /\ Len(submitted) = 3

\* C4: in a run that returns, the batches concatenated in submission order are
\* the chunks of the readable sources in input order, each exactly once, the
\* store grew by exactly them, and the returned list is as long as the total
\* submitted.
C4_BatchesAreAllChunks ==
    lk_pc = "done" =>
        /\ Concat(submitted) = ExpectedSplits(pdf_paths, Len(pdf_paths))
        /\ vector_db = db_before \o ExpectedSplits(pdf_paths, Len(pdf_paths))
        /\ Len(lk_return) = Len(Concat(submitted))

C4_Witness ==
    /\ lk_pc = "done"
    /\ Len(pdf_paths) >= 2
    /\ \A n \in 1..2 : pdf_paths[n].exists /\ pdf_paths[n].nchunks > 0
    /\ Len(submitted) >= 2
    /\ Len(lk_return) = pdf_paths[1].nchunks + pdf_paths[2].nchunks

\* C5: once every source is processed and no chunk was produced, the run can
\* only raise ValueError; nothing was handed to add_documents, save_local was
\* not called, and the store in memory and on disk is as before the request.
C5_EmptyKnowledgeFails ==
    (src_idx > Len(pdf_paths) /\ all_splits = <<>>) =>
        /\ lk_pc \in {"scan", "raised"}
        /\ lk_pc = "raised" => (lk_err = "ValueError" /\ lk_http = 500)
        /\ submitted = <<>>
        /\ save_calls = 0
        /\ vector_db = db_before
        /\ persisted = disk_before

C5_Witness ==
    /\ lk_pc = "raised"
    /\ lk_err = "ValueError"
    /\ \E n \in 1..Len(pdf_paths) : ~pdf_paths[n].exists
    /\ \E n \in 1..Len(pdf_paths) : pdf_paths[n].exists
    /\ submitted = <<>>

\* C7: a missing source never raises and contributes no chunks, the sources
\* after it are still processed, and when another source yields chunks the run
\* is not stopped by an exception of its own making: it returns with exactly
\* the chunks of the existing sources ingested (an exception can then only
\* come out of a collaborator: the loader, the splitter, add or save).
C7_MissingSourceSkipped ==
    /\ lk_err_src # 0 => pdf_paths[lk_err_src].exists
    /\ lk_pc = "scan" => all_splits = ExpectedSplits(pdf_paths, src_idx - 1)
    /\ lk_pc = "done" =>
          /\ Len(lk_return) = SumExisting(pdf_paths, Len(pdf_paths))
          /\ Len(vector_db) - Len(db_before)
                = SumExisting(pdf_paths, Len(pdf_paths))
    /\ (lk_pc = "raised" /\ SumExisting(pdf_paths, Len(pdf_paths)) > 0)
          => lk_err \in {"loader", "splitter", "add", "save"}

C7_Witness ==
    /\ lk_pc = "done"
    /\ Len(pdf_paths) = 2
    /\ ~pdf_paths[1].exists
    /\ pdf_paths[2].exists
    /\ Len(lk_return) = pdf_paths[2].nchunks
    /\ lk_http = 200

\* C9: load_knowledge calls save_local at most once, exactly once when it
\* returns, and only when every batch has been added; it is not called when
\* add_documents raised (the failed batch is then the last one submitted) nor
\* when the run failed with the empty-knowledge-base error.
C9_SaveOnceAfterLastBatch ==
    /\ save_calls <= 1
    /\ lk_pc = "done" => (save_calls = 1 /\ persisted = vector_db)
    /\ save_calls > 0 =>
          /\ Concat(submitted) = all_splits
          /\ vector_db = db_before \o all_splits
    /\ lk_pc = "batch" => save_calls = 0
    /\ lk_err \in {"add", "ValueError"} =>
          /\ save_calls = 0
          /\ persisted = disk_before
    /\ lk_err = "add" =>
          /\ lk_pc = "raised"
          /\ vector_db
                = db_before \o Concat(SubSeq(submitted, 1, Len(submitted) - 1))

C9_Witness ==
    /\ lk_pc = "done"
    /\ save_calls = 1
    /\ Len(submitted) = 2
    /\ persisted = db_before \o all_splits

----------------------------------------------------------------------------
(* Properties of rag_qa *)

\* C1: rag_qa never raises to its caller, so /qa never answers 500.
C1_RagQaNeverRaises ==
    /\ qa_pc # "raised"
    /\ qa_http # 500

Range(s) == {s[i] : i \in 1..Len(s)}

\* C2: whenever the generative model is called, the documents rendered into
\* its context are exactly the re-ranker's selection: at most 3, each one of
\* top_docs.
C2_ContextIsRerankSelection ==
    llm_calls > 0 =>
        /\ Len(context_docs) <= 3
        /\ Range(context_docs) = Range(top_docs)

ZeroCandidateReturn == qa_pc = "returned" /\ docs = <<>>

\* C6 as stated: on the zero-candidate path the fixed message is returned and
\* neither the generative model nor the embedding service has been invoked;
\* the model is invoked only after a non-empty retrieval.
C6_NoServiceOnEmpty ==
    /\ ZeroCandidateReturn =>
          /\ qa_result = NotFoundMsg
          /\ llm_calls = 0
          /\ embed_calls.retriever + embed_calls.rag_qa = 0
    /\ llm_calls > 0 => docs # <<>>

\* C6 (amended): on the zero-candidate path the fixed message is returned, the
\* generative model is not invoked and rag_qa asks the embedding service for
\* nothing; the one use of the embedding service is the question's
\* vectorisation inside the retriever's search.  The model is invoked only
\* after a non-empty retrieval.
C6_ShortCircuit ==
    /\ ZeroCandidateReturn =>
          /\ qa_result = NotFoundMsg
          /\ qa_http = 200
          /\ llm_calls = 0
          /\ embed_calls.rag_qa = 0
          /\ embed_calls.retriever = 1
    /\ llm_calls > 0 => docs # <<>>

C6_Witness ==
    /\ ZeroCandidateReturn
    /\ vector_db = <<>>
    /\ qa_result = NotFoundMsg

Ranked == qa_pc = "chain" \/ (qa_pc = "returned" /\ docs # <<>>)

PosInDocs(d) == CHOOSE i \in 1..Len(docs) : docs[i] = d

\* C10: after re-ranking, doc_scores holds the candidates in descending score
\* order with equal scores in retrieval order, and top_docs is its first
\* min(3, number of candidates) documents; this order is unique, so the same
\* candidates and scores always give the same selection.
C10_RerankStableTop3 ==
    Ranked =>
        /\ Len(doc_scores) = Len(docs)
        /\ {doc_scores[i][1] : i \in 1..Len(doc_scores)} = Range(docs)
        /\ \A i, j \in 1..Len(doc_scores) :
              i < j =>
                 /\ doc_scores[i][2] >= doc_scores[j][2]
                 /\ doc_scores[i][2] = doc_scores[j][2]
                       => PosInDocs(doc_scores[i][1])
                             < PosInDocs(doc_scores[j][1])
        /\ Len(top_docs) = Min(3, Len(docs))
        /\ \A i \in 1..Len(top_docs) : top_docs[i] = doc_scores[i][1]

C10_Witness ==
    /\ qa_pc = "chain"
    /\ Len(docs) >= 4
    /\ Len(top_docs) = 3
    /\ doc_scores[1][2] = doc_scores[2][2]
    /\ doc_scores[3][2] > doc_scores[4][2]
    /\ top_docs[1] # docs[1]

====
